---- MODULE Spec2Model ----
(***************************************************************************)
(* Model of the portfolio engine of microcap-adapted.                      *)
(*                                                                         *)
(*   main.py              main(), execute_trading_decisions(), the         *)
(*                        stop-loss loop, valuation and persistence        *)
(*   microcap_manager.py  check_stop_losses(), run_daily_update(), main()  *)
(*                                                                         *)
(* Money is a float in the code.  Here every amount is an integer number   *)
(* of 1/10000 dollar (prices are fetched with four decimals), so that      *)
(* round(x, 2) and the "%.2f" formats are roundings to a multiple of 100.  *)
(***************************************************************************)
EXTENDS Integers, Sequences, FiniteSets, TLC

VARIABLES
    \* ---- persistent files of main.py
    stateFile,      \* state/portfolio_state.json : None (absent) or Some([cash, holdings])
    queueFile,      \* trading_decisions.json["execution_queue"]
    history,        \* data/portfolio_history.csv : sequence of rows
    execLog,        \* logs/claude_executions_<date>.json : None or the last log
    latest_json,    \* docs/latest.json and the reports : None or the last output
    \* ---- one invocation of main.main
    pc,             \* position of the run
    failure,        \* why the run stopped abnormally ("none" otherwise)
    stops,          \* config.json: cfg["stops"]
    holdings,       \* main: holdings
    cash,           \* main: cash
    latest_prices,  \* main: latest_prices
    previous_data,  \* main: previous_data
    daily_changes,  \* main: daily_changes (None before calculate_daily_changes)
    decisions,      \* execute_trading_decisions: decisions
    i,              \* index of the next decision of the for loop
    executed_actions, \* execute_trading_decisions: executed_actions
    total_proceeds, \* execute_trading_decisions: total_proceeds
    j,              \* index of the next symbol of the stop-loss loop
    stop_actions,   \* main: stop_actions
    position_values,\* main: position_values
    total_value,    \* main: total_value
    \* ---- history variables (written, never read, by the actions)
    runs,           \* number of invocations so far
    pre,            \* the persistent files as they were when the run started
    trace,          \* the decisions and stop-loss checks of the run, in order
    afterDecisions, \* holdings and cash returned by execute_trading_decisions
    resolvedQueue,  \* the persisted queue, once a completed run has processed it
                    \* and while nobody has written to it since; <<>> otherwise
    submitted,      \* number of entries the decision source has queued so far
    \* ---- microcap_manager.py
    mm_csv,         \* microcap_portfolio.csv : None or the rows of the last date
    mm_portfolio,   \* portfolio_df : sequence of positions
    mm_cash,        \* cash
    mm_prices,      \* prices fetched by check_stop_losses
    mm_triggered,   \* triggered_stops returned by check_stop_losses
    mm_trade_log,   \* microcap_trades.csv : sequence of trades
    mm_before,      \* history variable: portfolio_df and cash given to check_stop_losses
    mm_order,       \* history variable: the last order, with the portfolio_df and cash given to it
    mm_runs         \* history variable: number of invocations so far

mainVars == <<stateFile, queueFile, history, execLog, latest_json, pc, failure,
              stops, holdings, cash, latest_prices, previous_data, daily_changes,
              decisions, i, executed_actions, total_proceeds, j, stop_actions,
              position_values, total_value, runs, pre, trace, afterDecisions,
              resolvedQueue, submitted>>

mmVars == <<mm_csv, mm_portfolio, mm_cash, mm_prices, mm_triggered, mm_trade_log,
            mm_before, mm_order, mm_runs>>

vars == <<mainVars, mmVars>>

-----------------------------------------------------------------------------
(* Bounds of the model *)

MaxRuns == 2
MaxQueue == 2
MaxRows == 2
MaxOrders == 3

-----------------------------------------------------------------------------
(* Values *)

\* Python's None (an unavailable price, no previous row) and an absent file are
\* the empty sequence; a present value x is <<x>>.
None == <<>>

Some(x) == <<x>>

Val(o) == o[1]

\* cfg["symbols"]: the configured universe, in order.
Universe == <<"GEVO", "ARQ">>

Symbols == {Universe[k] : k \in 1..Len(Universe)}

\* initial_state of main.main.
SeedState ==
    [cash |-> 0, holdings |-> [GEVO |-> 299, FEIM |-> 10, ARQ |-> 37, UPXI |-> 17]]

\* The closes fetch_daily_close may return, per symbol (1/10000 dollar).
PriceChoices ==
    [GEVO |-> {None, Some(10026)},
     ARQ  |-> {None, Some(50000), Some(58000), Some(60026)}]

\* The snapshots of one run: one close or None per configured symbol.
Snapshots ==
    {px \in [Symbols -> UNION {PriceChoices[s] : s \in Symbols}] :
        \A s \in Symbols : px[s] \in PriceChoices[s]}

\* cfg["stops"] as the configuration file may give it: complete, or lacking a symbol.
StopConfigs ==
    { [GEVO |-> 9500, ARQ |-> 58000], [GEVO |-> 9500] }

\* The target quantities a decision may carry.
Targets == {-5, 50}

\* The value an ADD entry asks to buy for (1/10000 dollar): 100.00.
AddValue == 1000000

\* Queue entries of other shapes, as JSON objects: an action the for loop has
\* no branch for (ADD, and a misspelt one), "target_quantity": null (the key
\* is there, so .get() returns None), an entry without "symbol" and an entry
\* for a symbol that is held but is not in the configured universe.
OtherDecisions ==
    { [symbol |-> "GEVO", action |-> "ADD", target_value |-> AddValue],
      [symbol |-> "ARQ", action |-> "SELLALL"],
      [symbol |-> "GEVO", action |-> "TRIM_TO", target_quantity_null |-> TRUE],
      [action |-> "SELL_ALL"],
      [symbol |-> "FEIM", action |-> "SELL_ALL", target_quantity |-> 0] }

\* The entries the decision source may put in the execution queue.
DecisionSet ==
    {[symbol |-> s, action |-> a, target_quantity |-> t] :
        s \in Symbols, a \in {"SELL_PARTIAL", "TRIM_TO"}, t \in Targets}
    \cup
    {[symbol |-> s, action |-> a, target_quantity |-> 0] :
        s \in Symbols, a \in {"SELL_ALL", "HOLD"}}
    \cup OtherDecisions

Terminal == {"done", "exit1", "crashed"}

-----------------------------------------------------------------------------
(* Pure helpers *)

\* round(x, 2) and format(x, ".2f") on an amount in 1/10000: the nearest multiple
\* of 100, ties to even.  (On a binary float a tie goes by the representation
\* error; the closes of PriceChoices are chosen so that no saved cash is a
\* tie: NoRoundingTie.)
Round2(x) ==
    LET q == x \div 100
        r == x % 100
    IN  IF r < 50 THEN q * 100
        ELSE IF r > 50 THEN (q + 1) * 100
        ELSE IF q % 2 = 0 THEN q * 100 ELSE (q + 1) * 100

\* dict.get(key, 0)
Get(d, k) == IF k \in DOMAIN d THEN d[k] ELSE 0

\* not (symbol not in latest_prices or latest_prices[symbol] is None)
PriceKnown(px, s) == s \in DOMAIN px /\ px[s] # None

\* Put that makes a new dict of the one key.
PutOnly(d, k, v) == [x \in {k} |-> v]

\* d with d[k] = v
Put(d, k, v) == [x \in DOMAIN d \cup {k} |-> IF x = k THEN v ELSE d[x]]

-----------------------------------------------------------------------------
(* execute_trading_decisions: one decision of the for loop *)

\* decision.get('symbol'): the symbol, or None, which is the key of no price
\* and of no holding (written "" here).
SymbolOf(d) == IF "symbol" \in DOMAIN d THEN d.symbol ELSE ""

\* decision.get('target_quantity', 0) of an entry whose target is not null
TargetQty(d) == IF "target_quantity" \in DOMAIN d THEN d.target_quantity ELSE 0

\* The entries of the queue that ask for no negative quantity.
NonNegativeDecisions == {d \in DecisionSet : TargetQty(d) >= 0}

\* current_qty > target_qty with target_qty None raises TypeError: the entry
\* has a close, a null target and an action that compares the two.
RaisesTypeError(d, px) ==
    /\ PriceKnown(px, SymbolOf(d))
    /\ d.action \in {"SELL_PARTIAL", "TRIM_TO"}
    /\ "target_quantity_null" \in DOMAIN d

\* SaleQuantity that brings the holding to the target from below as from above.
SaleQuantityToTarget(d, current_qty) ==
    CASE d.action = "SELL_ALL" ->
            IF current_qty > 0 THEN current_qty ELSE 0
      [] d.action \in {"SELL_PARTIAL", "TRIM_TO"} ->
            IF current_qty # TargetQty(d) THEN current_qty - TargetQty(d) ELSE 0
      [] OTHER -> 0

\* SaleQuantity that sells the whole holding where the difference is due.
SaleQuantityAll(d, current_qty) ==
    CASE d.action = "SELL_ALL" ->
            IF current_qty > 0 THEN current_qty ELSE 0
      [] d.action \in {"SELL_PARTIAL", "TRIM_TO"} ->
            IF current_qty > TargetQty(d) THEN current_qty ELSE 0
      [] OTHER -> 0

\* The number of shares a decision sells when current_qty shares are held: the
\* guards current_qty > 0 (SELL_ALL) and current_qty > target_qty (SELL_PARTIAL,
\* TRIM_TO); 0 when the guard fails, for HOLD and for any other action.
SaleQuantity(d, current_qty) ==
    CASE d.action = "SELL_ALL" ->
            IF current_qty > 0 THEN current_qty ELSE 0
      [] d.action \in {"SELL_PARTIAL", "TRIM_TO"} ->
            IF current_qty > TargetQty(d)
                THEN current_qty - TargetQty(d) ELSE 0
      [] OTHER -> 0

\* What holdings[symbol] is set to by a decision that sells.
NewHolding(d) == IF d.action = "SELL_ALL" THEN 0 ELSE TargetQty(d)

\* The words of the entry appended to executed_actions.
ActionLabel(a) ==
    CASE a = "SELL_ALL" -> "CLAUDE SELL ALL"
      [] a = "SELL_PARTIAL" -> "CLAUDE SELL"
      [] OTHER -> "CLAUDE TRIM"

\* ApplyDecision without the test of lines 70-71: a missing close counts as 0.
ApplyDecisionBlind(e, d, px) ==
    LET symbol == SymbolOf(d)
        current_qty == Get(e.holdings, symbol)
        price == IF PriceKnown(px, symbol) THEN Val(px[symbol]) ELSE 0
        qty == SaleQuantity(d, current_qty)
        proceeds == qty * price
    IN  IF qty = 0 THEN e
        ELSE [holdings |-> Put(e.holdings, symbol, NewHolding(d)),
              cash |-> e.cash + proceeds,
              total_proceeds |-> e.total_proceeds + proceeds,
              executed_actions |->
                  Append(e.executed_actions,
                         [label |-> ActionLabel(d.action), symbol |-> symbol,
                          qty |-> qty, price |-> price, proceeds |-> proceeds])]

\* The body of the for loop on e = [holdings, cash, total_proceeds, executed_actions].
ApplyDecision(e, d, px) ==
    LET symbol == SymbolOf(d)
        current_qty == Get(e.holdings, symbol)
    IN  IF ~PriceKnown(px, symbol) THEN e
        ELSE
          LET price == Val(px[symbol])
              qty == SaleQuantity(d, current_qty)
              proceeds == qty * price
          IN  IF qty = 0 THEN e
              ELSE [holdings |-> Put(e.holdings, symbol, NewHolding(d)),
                    cash |-> e.cash + proceeds,
                    total_proceeds |-> e.total_proceeds + proceeds,
                    executed_actions |->
                        Append(e.executed_actions,
                               [label |-> ActionLabel(d.action), symbol |-> symbol,
                                qty |-> qty, price |-> price, proceeds |-> proceeds])]

-----------------------------------------------------------------------------
(* main: one symbol of the stop-loss loop *)

\* StopTriggered with < for <=.
StopTriggeredStrict(h, px, stp, sym) ==
    Get(h, sym) > 0 /\ Val(px[sym]) < stp[sym]

\* holdings.get(sym, 0) > 0 and latest_prices[sym] <= stop
StopTriggered(h, px, stp, sym) ==
    Get(h, sym) > 0 /\ Val(px[sym]) <= stp[sym]

\* proceeds = qty * latest_prices[sym]
StopProceeds(qty, price, stop) == qty * price

\* The body of the loop on e = [holdings, cash, stop_actions], for a symbol with
\* a known price and a configured stop.
ApplyStop(e, sym, px, stp) ==
    IF StopTriggered(e.holdings, px, stp, sym)
    THEN LET qty == e.holdings[sym]
         IN  [holdings |-> Put(e.holdings, sym, 0),
              cash |-> e.cash + StopProceeds(qty, Val(px[sym]), stp[sym]),
              stop_actions |->
                  Append(e.stop_actions,
                         [label |-> "STOP LOSS", symbol |-> sym, qty |-> qty,
                          price |-> Val(px[sym])])]
    ELSE e

-----------------------------------------------------------------------------
(* main.main, step by step *)

\* Phases with the stop-loss loop first (the order of run_daily_update).
PhasesStopsFirst == <<"stops", "decisions">>

\* The order of the two passes of main between the fetch and the valuation:
\* execute_trading_decisions is called first, the stop-loss loop follows.
Phases == <<"decisions", "stops">>

\* where the run goes when the pass p is over
PhaseAfter(p) ==
    LET n == CHOOSE k \in 1..Len(Phases) : Phases[k] = p
    IN  IF n < Len(Phases) THEN Phases[n + 1] ELSE "valuation"

\* latest_date is None: no fetch succeeded.
NoValidData(px) == \A s \in Symbols : px[s] = None

\* get_previous_day_data(): the last row of the history, or None.
PreviousDayData(h) == IF Len(h) >= 1 THEN Some(h[Len(h)]) ELSE None

\* From the start of main to the call of execute_trading_decisions: the state
\* file is created when absent, state and configuration are loaded, the closes
\* are fetched, and the run exits with status 1 when no close was fetched.
BeginRun(px) ==
    /\ pc \in Terminal \cup {"idle"}
    /\ runs < MaxRuns
    /\ runs' = runs + 1
    /\ pre' = [state |-> stateFile, queue |-> queueFile, rows |-> Len(history),
               execLog |-> execLog, latest_json |-> latest_json,
               resolved |-> resolvedQueue]
    /\ stateFile' = IF stateFile = None THEN Some(SeedState) ELSE stateFile
    /\ holdings' = Val(stateFile').holdings
    /\ cash' = Val(stateFile').cash
    /\ previous_data' = PreviousDayData(history)
    /\ daily_changes' = None
    /\ latest_prices' = px
    /\ IF NoValidData(px)
         THEN pc' = "exit1" /\ failure' = "No valid data fetched"
         ELSE pc' = Phases[1] /\ failure' = "none"
    /\ decisions' = IF NoValidData(px) THEN <<>> ELSE queueFile
    /\ i' = 1
    /\ j' = 1
    /\ executed_actions' = <<>>
    /\ total_proceeds' = 0
    /\ stop_actions' = <<>>
    /\ position_values' = [s \in Symbols |-> 0]
    /\ total_value' = 0
    /\ trace' = <<>>
    /\ afterDecisions' = None
    /\ UNCHANGED <<queueFile, history, execLog, latest_json, stops, resolvedQueue,
                   submitted>>

\* One iteration of the for loop of execute_trading_decisions; the comparison
\* with a null target raises TypeError, which nothing catches.
ExecuteDecision ==
    /\ pc = "decisions"
    /\ i <= Len(decisions)
    /\ IF RaisesTypeError(decisions[i], latest_prices)
         THEN /\ pc' = "crashed"
              /\ failure' = "TypeError"
              /\ UNCHANGED <<holdings, cash, total_proceeds, executed_actions, trace, i>>
         ELSE /\ LET e == ApplyDecision([holdings |-> holdings, cash |-> cash,
                                         total_proceeds |-> total_proceeds,
                                         executed_actions |-> executed_actions],
                                        decisions[i], latest_prices)
                 IN  /\ holdings' = e.holdings
                     /\ cash' = e.cash
                     /\ total_proceeds' = e.total_proceeds
                     /\ executed_actions' = e.executed_actions
                     /\ trace' = Append(trace, [ev |-> "decision", k |-> i,
                                                symbol |-> SymbolOf(decisions[i]),
                                                did |-> e.executed_actions # executed_actions])
              /\ i' = i + 1
              /\ UNCHANGED <<pc, failure>>
    /\ UNCHANGED <<stateFile, queueFile, history, execLog, latest_json,
                   stops, latest_prices, previous_data, daily_changes, decisions, j, stop_actions,
                   position_values, total_value, runs, pre, afterDecisions,
                   resolvedQueue, submitted>>

\* The log written to logs/claude_executions_<date>.json.
ExecutedLog == [total_proceeds |-> total_proceeds, executed_actions |-> executed_actions]

\* After the loop: when something was executed the log is saved and the whole
\* execution queue is replaced by the empty list; then the function returns.
ArchiveDecisions ==
    /\ pc = "decisions"
    /\ i > Len(decisions)
    /\ IF executed_actions # <<>>
         THEN execLog' = Some(ExecutedLog) /\ queueFile' = <<>>
         ELSE UNCHANGED <<execLog, queueFile>>
    /\ afterDecisions' = Some([holdings |-> holdings, cash |-> cash])
    /\ pc' = PhaseAfter("decisions")
    /\ UNCHANGED <<stateFile, history, latest_json, failure, stops, holdings, cash,
                   latest_prices, previous_data, daily_changes, decisions, i, executed_actions,
                   total_proceeds, j, stop_actions, position_values, total_value,
                   runs, pre, trace, resolvedQueue, submitted>>

\* One iteration of the stop-loss loop: a symbol without a close is passed
\* over; stops[sym] raises KeyError when the configuration has no stop for it.
\* After the last symbol the run goes on to the next pass.
StopLossStep ==
    /\ pc = "stops"
    /\ j <= Len(Universe)
    /\ LET sym == Universe[j]
       IN  IF ~PriceKnown(latest_prices, sym)
             THEN /\ trace' = Append(trace, [ev |-> "stop", k |-> j, symbol |-> sym,
                                             did |-> FALSE])
                  /\ j' = j + 1
                  /\ pc' = IF j' > Len(Universe) THEN PhaseAfter("stops") ELSE pc
                  /\ UNCHANGED <<failure, holdings, cash, stop_actions>>
           ELSE IF sym \notin DOMAIN stops
             THEN /\ pc' = "crashed"
                  /\ failure' = "KeyError"
                  /\ UNCHANGED <<trace, j, holdings, cash, stop_actions>>
           ELSE LET e == ApplyStop([holdings |-> holdings, cash |-> cash,
                                    stop_actions |-> stop_actions],
                                   sym, latest_prices, stops)
                IN  /\ holdings' = e.holdings
                    /\ cash' = e.cash
                    /\ stop_actions' = e.stop_actions
                    /\ trace' = Append(trace, [ev |-> "stop", k |-> j, symbol |-> sym,
                                               did |-> e.stop_actions # stop_actions])
                    /\ j' = j + 1
                    /\ pc' = IF j' > Len(Universe) THEN PhaseAfter("stops") ELSE pc
                    /\ UNCHANGED failure
    /\ UNCHANGED <<stateFile, queueFile, history, execLog, latest_json, stops,
                   latest_prices, previous_data, daily_changes, decisions, i, executed_actions,
                   total_proceeds, position_values, total_value, runs, pre,
                   afterDecisions, resolvedQueue, submitted>>

\* sum of f[x] over the elements x of the finite set S
RECURSIVE SumOver(_, _)
SumOver(f, S) ==
    IF S = {} THEN 0
    ELSE LET x == CHOOSE y \in S : TRUE IN f[x] + SumOver(f, S \ {x})

\* position_values of main: int(holdings.get(sym, 0)) * close, 0 without a close.
PositionValues(h, px) ==
    [s \in Symbols |-> IF PriceKnown(px, s) THEN Get(h, s) * Val(px[s]) ELSE 0]

\* TotalValue that starts the sum from 0 instead of cash.
TotalValueNoCash(h, c, px) == SumOver(PositionValues(h, px), Symbols)

\* total_value of main: cash plus the position values.
TotalValue(h, c, px) == c + SumOver(PositionValues(h, px), Symbols)

\* The row main appends to data/portfolio_history.csv.
HistoryRow(h, c, px, acts) ==
    [cash |-> Round2(c),
     close |-> px,
     qty |-> [s \in Symbols |-> Get(h, s)],
     value |-> [s \in Symbols |-> Round2(PositionValues(h, px)[s])],
     total_value |-> Round2(TotalValue(h, c, px)),
     actions |-> acts]

\* change / base * 100 in 1/100 percent (base # 0), as format(x, ".2f") shows
\* it: the quotient change * 10000 / base rounded to the nearest integer, ties
\* to even.  The four decimal digits are taken by long division, which keeps
\* the products within 32 bits.
Pct(change, base) ==
    LET n == IF base < 0 THEN 0 - change ELSE change
        b == IF base < 0 THEN 0 - base ELSE base
        q0 == n \div b
        r0 == n % b
        d1 == (r0 * 10) \div b
        r1 == (r0 * 10) % b
        d2 == (r1 * 10) \div b
        r2 == (r1 * 10) % b
        d3 == (r2 * 10) \div b
        r3 == (r2 * 10) % b
        d4 == (r3 * 10) \div b
        r4 == (r3 * 10) % b
        q == q0 * 10000 + d1 * 1000 + d2 * 100 + d3 * 10 + d4
    IN  IF 2 * r4 < b THEN q
        ELSE IF 2 * r4 > b THEN q + 1
        ELSE IF q % 2 = 0 THEN q ELSE q + 1

ZeroChange == [price_change |-> 0, price_change_pct |-> 0, value_change |-> 0]

ZeroPortfolio == [total_change |-> 0, total_change_pct |-> 0]

\* calculate_daily_changes, one symbol with a previous row: the change of the
\* close against the close of the previous row, times the quantity of the
\* previous row; zeros when either close is missing.
SymbolChange(current_prices, prev, symbol) ==
    IF PriceKnown(current_prices, symbol) /\ symbol \in DOMAIN prev.close
          /\ prev.close[symbol] # None
    THEN LET current_price == Val(current_prices[symbol])
             prev_price == Val(prev.close[symbol])
             price_change == current_price - prev_price
             quantity == Get(prev.qty, symbol)
         IN  [price_change |-> price_change,
              price_change_pct |-> IF prev_price # 0 THEN Pct(price_change, prev_price)
                                   ELSE 0,
              value_change |-> price_change * quantity]
    ELSE ZeroChange

\* calculate_daily_changes, the portfolio with a previous row.
PortfolioChange(current_total, prev) ==
    LET prev_total == prev.total_value
        total_change == current_total - prev_total
    IN  [total_change |-> total_change,
         total_change_pct |-> IF prev_total # 0 THEN Pct(total_change, prev_total)
                              ELSE 0]

\* CalculateDailyChanges that takes a missing previous row for a row of zeros.
CalculateDailyChangesFromZero(current_prices, current_total, previous, symbols) ==
    [symbol |-> [s \in symbols |->
                    IF PriceKnown(current_prices, s)
                      THEN [price_change |-> Val(current_prices[s]),
                            price_change_pct |-> 0, value_change |-> 0]
                      ELSE ZeroChange],
     portfolio |-> [total_change |-> current_total, total_change_pct |-> 0]]

\* calculate_daily_changes(current_prices, current_total, previous_data, symbols)
CalculateDailyChanges(current_prices, current_total, previous, symbols) ==
    IF previous = None
    THEN [symbol |-> [s \in symbols |-> ZeroChange], portfolio |-> ZeroPortfolio]
    ELSE [symbol |-> [s \in symbols |-> SymbolChange(current_prices, Val(previous), s)],
          portfolio |-> PortfolioChange(current_total, Val(previous))]

\* The delta columns of the row: "%.4f" of the price change, "%.2f" of the others.
ChangeColumns(changes) ==
    [change |-> [s \in DOMAIN changes.symbol |->
                    [price_change |-> changes.symbol[s].price_change,
                     price_change_pct |-> changes.symbol[s].price_change_pct,
                     value_change |-> Round2(changes.symbol[s].value_change)]],
     portfolio_change |-> Round2(changes.portfolio.total_change),
     portfolio_change_pct |-> changes.portfolio.total_change_pct]

\* the record f with the columns of g added or replaced
WithColumns(f, g) ==
    [x \in DOMAIN f \cup DOMAIN g |-> IF x \in DOMAIN g THEN g[x] ELSE f[x]]

\* row_data: the row with its delta columns.
RowData(h, c, px, acts, changes) ==
    WithColumns(HistoryRow(h, c, px, acts), ChangeColumns(changes))

\* After the stop-loss loop: the portfolio is valued, the daily changes are
\* computed against the previous row and the row is appended to the history.
AppendHistory ==
    /\ pc = "valuation"
    /\ position_values' = PositionValues(holdings, latest_prices)
    /\ total_value' = TotalValue(holdings, cash, latest_prices)
    /\ daily_changes' = Some(CalculateDailyChanges(latest_prices, total_value',
                                                   previous_data, Symbols))
    /\ history' = Append(history, RowData(holdings, cash, latest_prices,
                                          executed_actions \o stop_actions,
                                          Val(daily_changes')))
    /\ pc' = "save_state"
    /\ UNCHANGED <<stateFile, queueFile, execLog, latest_json, failure, stops,
                   holdings, cash, latest_prices, previous_data, decisions, i,
                   executed_actions, total_proceeds, j, stop_actions, runs, pre,
                   trace, afterDecisions, resolvedQueue, submitted>>

\* The same step when the history file cannot be written: open() raises and the
\* run ends there.
AppendHistoryFails ==
    /\ pc = "valuation"
    /\ position_values' = PositionValues(holdings, latest_prices)
    /\ total_value' = TotalValue(holdings, cash, latest_prices)
    /\ daily_changes' = Some(CalculateDailyChanges(latest_prices, total_value',
                                                   previous_data, Symbols))
    /\ pc' = "crashed"
    /\ failure' = "OSError"
    /\ UNCHANGED <<stateFile, queueFile, history, execLog, latest_json, stops,
                   holdings, cash, latest_prices, previous_data, decisions, i,
                   executed_actions, total_proceeds, j, stop_actions, runs, pre,
                   trace, afterDecisions, resolvedQueue, submitted>>

\* "Update state": cash rounded to two places and the holdings are saved.
SavedState(h, c) == [cash |-> Round2(c), holdings |-> h]

SaveState ==
    /\ pc = "save_state"
    /\ stateFile' = Some(SavedState(holdings, cash))
    /\ pc' = "reports"
    /\ UNCHANGED <<queueFile, history, execLog, latest_json, failure, stops,
                   holdings, cash, latest_prices, previous_data, daily_changes, decisions, i,
                   executed_actions, total_proceeds, j, stop_actions,
                   position_values, total_value, runs, pre, trace, afterDecisions,
                   resolvedQueue, submitted>>

\* The same step when save_json raises.
SaveStateFails ==
    /\ pc = "save_state"
    /\ pc' = "crashed"
    /\ failure' = "OSError"
    /\ UNCHANGED <<stateFile, queueFile, history, execLog, latest_json, stops,
                   holdings, cash, latest_prices, previous_data, daily_changes, decisions, i,
                   executed_actions, total_proceeds, j, stop_actions,
                   position_values, total_value, runs, pre, trace, afterDecisions,
                   resolvedQueue, submitted>>

\* docs/latest.json (the two reports repeat its contents).
LatestJson ==
    [cash |-> Round2(cash),
     total_value |-> IF total_value > 0 THEN Some(Round2(total_value)) ELSE None,
     quantities |-> [s \in Symbols |-> Get(holdings, s)],
     claude_decisions_executed |-> Len(executed_actions) > 0]

\* The outputs are written and main returns 0.
WriteReports ==
    /\ pc = "reports"
    /\ latest_json' = Some(LatestJson)
    /\ pc' = "done"
    /\ resolvedQueue' = IF queueFile = decisions THEN decisions ELSE <<>>
    /\ UNCHANGED <<stateFile, queueFile, history, execLog, failure, stops,
                   holdings, cash, latest_prices, previous_data, daily_changes, decisions, i,
                   executed_actions, total_proceeds, j, stop_actions,
                   position_values, total_value, runs, pre, trace, afterDecisions,
                   submitted>>

\* The decision source appends an entry to the execution queue between two runs.
SubmitDecision(d) ==
    /\ pc \in Terminal \cup {"idle"}
    /\ runs < MaxRuns
    /\ submitted < MaxQueue
    /\ submitted' = submitted + 1
    /\ queueFile' = Append(queueFile, d)
    /\ resolvedQueue' = <<>>
    /\ pc' = "idle"
    /\ UNCHANGED <<stateFile, history, execLog, latest_json, failure, stops,
                   holdings, cash, latest_prices, previous_data, daily_changes, decisions, i,
                   executed_actions, total_proceeds, j, stop_actions,
                   position_values, total_value, runs, pre, trace, afterDecisions>>

-----------------------------------------------------------------------------
(* backfill_daily_changes.py *)

\* symbols of backfill_daily_changes
BackfillSymbols == {"GEVO", "FEIM", "ARQ", "UPXI"}

\* float(row[f'{sym}_close']) if row[f'{sym}_close'] else 0
CloseOrZero(row, sym) == IF row.close[sym] # None THEN Val(row.close[sym]) ELSE 0

\* The columns of one symbol for a row after the first: a symbol that has no
\* column in the file raises KeyError, which gives zeros; the quantity is the
\* one of the row itself.
BackfillChange(row, prev_row, sym) ==
    IF sym \notin DOMAIN row.close THEN ZeroChange
    ELSE LET current_price == CloseOrZero(row, sym)
             prev_price == CloseOrZero(prev_row, sym)
             quantity == row.qty[sym]
             price_change == current_price - prev_price
         IN  IF prev_price > 0
               THEN [price_change |-> price_change,
                     price_change_pct |-> Pct(price_change, prev_price),
                     value_change |-> Round2(price_change * quantity)]
               ELSE ZeroChange

\* The columns backfill_daily_changes gives the row k of rows.
BackfillColumns(rows, k) ==
    IF k = 1
    THEN [change |-> [s \in BackfillSymbols |-> ZeroChange],
          portfolio_change |-> 0, portfolio_change_pct |-> 0]
    ELSE LET row == rows[k]
             prev_row == rows[k - 1]
             current_total == row.total_value
             prev_total == prev_row.total_value
             portfolio_change == current_total - prev_total
         IN  [change |-> [s \in BackfillSymbols |-> BackfillChange(row, prev_row, s)],
              portfolio_change |-> Round2(portfolio_change),
              portfolio_change_pct |-> IF prev_total > 0
                                         THEN Pct(portfolio_change, prev_total) ELSE 0]

\* enhanced_rows
BackfillRows(rows) ==
    [k \in 1..Len(rows) |-> WithColumns(rows[k], BackfillColumns(rows, k))]

\* backfill_daily_changes() between two runs of main, on a history of at least
\* two rows (it returns without writing otherwise).
Backfill ==
    /\ pc \in Terminal \cup {"idle"}
    /\ Len(history) >= 2
    /\ history' = BackfillRows(history)
    /\ UNCHANGED <<stateFile, queueFile, execLog, latest_json, pc, failure, stops,
                   holdings, cash, latest_prices, previous_data, daily_changes,
                   decisions, i, executed_actions, total_proceeds, j, stop_actions,
                   position_values, total_value, runs, pre, trace, afterDecisions,
                   resolvedQueue, submitted>>

-----------------------------------------------------------------------------
(* The valuation of main on given holdings, cash and closes *)

\* The post-reconciliation states the valuation is applied to.
DeltaHoldings ==
    { SeedState.holdings,
      [GEVO |-> 0, FEIM |-> 10, ARQ |-> 0, UPXI |-> 17] }

DeltaCash == {0, 9500000, 10000000}

\* Lines 264-317 of main on the holdings h, the cash c and the closes px (one
\* close at least): valuation, daily changes against the last row, new row.
DeltaRecord(px, h, c) ==
    /\ pc = "idle"
    /\ Len(history) < MaxRows
    /\ ~NoValidData(px)
    /\ latest_prices' = px
    /\ holdings' = h
    /\ cash' = c
    /\ previous_data' = PreviousDayData(history)
    /\ position_values' = PositionValues(h, px)
    /\ total_value' = TotalValue(h, c, px)
    /\ daily_changes' = Some(CalculateDailyChanges(px, total_value', previous_data',
                                                   Symbols))
    /\ history' = Append(history, RowData(h, c, px, <<>>, Val(daily_changes')))
    /\ UNCHANGED <<stateFile, queueFile, execLog, latest_json, pc, failure, stops,
                   decisions, i, executed_actions, total_proceeds, j, stop_actions,
                   runs, pre, trace, afterDecisions, resolvedQueue, submitted>>

-----------------------------------------------------------------------------
(* microcap_manager.py *)

\* INITIAL_PORTFOLIO, for the tickers of the model.
INITIAL_PORTFOLIO ==
    << [ticker |-> "GEVO", shares |-> 299, buy_price |-> 11800, stop_loss |-> 9500,
        cost_basis |-> 3528200],
       [ticker |-> "ARQ", shares |-> 37, buy_price |-> 66200, stop_loss |-> 58000,
        cost_basis |-> 2449400] >>

\* The closes fetch_current_prices may return, per ticker (None: no data).
MMPriceChoices ==
    [GEVO |-> {None, Some(9000), Some(10025)},
     ARQ  |-> {None, Some(50000), Some(58000), Some(60025)}]

MMTickers == DOMAIN MMPriceChoices

MMSnapshots ==
    {px \in [MMTickers -> UNION {MMPriceChoices[t] : t \in MMTickers}] :
        \A t \in MMTickers : px[t] \in MMPriceChoices[t]}

\* the tickers of portfolio_df
TickersOf(pf) == {pf[k].ticker : k \in 1..Len(pf)}

\* fetch_current_prices(tickers): the closes of the tickers asked for.
FetchCurrentPrices(pf, px) == [t \in TickersOf(pf) |-> px[t]]

\* "if current_price": neither None nor 0.
Truthy(o) == o # None /\ Val(o) # 0

\* current_price and current_price <= stop_loss
MMStopTriggered(pos, prices) ==
    Truthy(prices[pos.ticker]) /\ Val(prices[pos.ticker]) <= pos.stop_loss

\* sell_value = shares * stop_loss
MMSellValue(pos, prices) == pos.shares * pos.stop_loss

\* stop_info of a triggered position
StopInfo(pos, prices) ==
    [ticker |-> pos.ticker, shares |-> pos.shares, stop_price |-> pos.stop_loss,
     sell_value |-> MMSellValue(pos, prices)]

RECURSIVE SumSeq(_)
SumSeq(s) == IF s = <<>> THEN 0 ELSE Head(s) + SumSeq(Tail(s))

\* check_stop_losses(portfolio_df, cash) with the fetched closes: the portfolio
\* without the stopped-out positions, the cash and triggered_stops.
CheckStopLosses(pf, c, prices) ==
    LET Hit(pos) == MMStopTriggered(pos, prices)
        Kept(pos) == ~MMStopTriggered(pos, prices)
        hit == SelectSeq(pf, Hit)
        triggered == [k \in 1..Len(hit) |-> StopInfo(hit[k], prices)]
    IN  [portfolio |-> SelectSeq(pf, Kept),
         cash |-> c + SumSeq([k \in 1..Len(triggered) |-> triggered[k].sell_value]),
         triggered_stops |-> triggered]

\* log_trade("SELL", ticker, shares, stop_loss, "STOP LOSS TRIGGERED")
StopTrade(info) ==
    [action |-> "SELL", ticker |-> info.ticker, shares |-> info.shares,
     price |-> info.stop_price, reason |-> "STOP LOSS TRIGGERED"]

\* The position rows save_daily_snapshot writes for today: the positions of
\* calculate_portfolio_metrics, which keeps a position only when its close,
\* fetched again, is there.
SnapshotRows(pf, prices) ==
    LET Priced(pos) == Truthy(prices[pos.ticker])
        Row(pos) == [ticker |-> pos.ticker, shares |-> pos.shares,
                     buy_price |-> pos.buy_price, stop_loss |-> pos.stop_loss]
        kept == SelectSeq(pf, Priced)
    IN  [k \in 1..Len(kept) |-> Row(kept[k])]

\* main() on reading the file: the position rows of the latest date, with
\* cost_basis = shares * buy_price; INITIAL_PORTFOLIO when there is none.
LoadPortfolio(csv) ==
    LET Position(row) == [ticker |-> row.ticker, shares |-> row.shares,
                          buy_price |-> row.buy_price, stop_loss |-> row.stop_loss,
                          cost_basis |-> row.shares * row.buy_price]
    IN  IF csv = None \/ Val(csv) = <<>> THEN INITIAL_PORTFOLIO
        ELSE [k \in 1..Len(Val(csv)) |-> Position(Val(csv)[k])]

\* One invocation of microcap_manager.main: the portfolio is initialized or
\* loaded (cash is 0.0 either way), run_daily_update checks the stop losses on
\* the closes px1, values the portfolio on the closes px2 fetched anew and
\* saves the snapshot.
MMMain(px1, px2) ==
    /\ mm_runs < MaxRuns
    /\ mm_runs' = mm_runs + 1
    /\ LET pf0 == LoadPortfolio(mm_csv)
           cash0 == 0
           prices1 == FetchCurrentPrices(pf0, px1)
           r == CheckStopLosses(pf0, cash0, prices1)
           prices2 == FetchCurrentPrices(r.portfolio, px2)
       IN  /\ mm_before' = Some([portfolio |-> pf0, cash |-> cash0])
           /\ mm_order' = None
           /\ mm_prices' = prices1
           /\ mm_portfolio' = r.portfolio
           /\ mm_cash' = r.cash
           /\ mm_triggered' = r.triggered_stops
           /\ mm_trade_log' = mm_trade_log \o
                  [k \in 1..Len(r.triggered_stops) |-> StopTrade(r.triggered_stops[k])]
           /\ mm_csv' = Some(SnapshotRows(r.portfolio, prices2))

-----------------------------------------------------------------------------
(* microcap_manager.py: the orders *)

\* the index of the first row of portfolio_df for the ticker (existing.index[0])
FirstIndex(pf, ticker) ==
    CHOOSE k \in 1..Len(pf) :
        pf[k].ticker = ticker /\ \A m \in 1..(k - 1) : pf[m].ticker # ticker

\* log_trade(action, ticker, shares, price, "CLAUDE DECISION")
OrderTrade(action, ticker, shares, price) ==
    [action |-> action, ticker |-> ticker, shares |-> shares, price |-> price,
     reason |-> "CLAUDE DECISION"]

\* execute_buy_order without the test of cost against cash.
ExecuteBuyOrderUnchecked(ticker, shares, price, stop_loss, pf, c) ==
    LET cost == shares * price
    IN  [portfolio |-> Append(pf, [ticker |-> ticker, shares |-> shares,
                                   buy_price |-> price, stop_loss |-> stop_loss,
                                   cost_basis |-> cost]),
         cash |-> c - cost,
         trades |-> <<OrderTrade("BUY", ticker, shares, price)>>]

\* execute_buy_order(ticker, shares, price, stop_loss, portfolio_df, cash): the
\* portfolio, the cash and the trades logged.  The average price is kept to
\* 1/10000 dollar.
ExecuteBuyOrder(ticker, shares, price, stop_loss, pf, c) ==
    LET cost == shares * price
    IN  IF cost > c THEN [portfolio |-> pf, cash |-> c, trades |-> <<>>]
        ELSE
          LET new_pf ==
                IF ticker \in TickersOf(pf)
                  THEN LET idx == FirstIndex(pf, ticker)
                           new_shares == pf[idx].shares + shares
                           new_cost_basis == pf[idx].cost_basis + cost
                           new_avg_price == new_cost_basis \div new_shares
                       IN  [pf EXCEPT ![idx] =
                               [ticker |-> ticker, shares |-> new_shares,
                                buy_price |-> new_avg_price, stop_loss |-> stop_loss,
                                cost_basis |-> new_cost_basis]]
                  ELSE Append(pf, [ticker |-> ticker, shares |-> shares,
                                   buy_price |-> price, stop_loss |-> stop_loss,
                                   cost_basis |-> cost])
          IN  [portfolio |-> new_pf, cash |-> c - cost,
               trades |-> <<OrderTrade("BUY", ticker, shares, price)>>]

\* execute_sell_order(ticker, shares, price, portfolio_df, cash)
ExecuteSellOrder(ticker, shares, price, pf, c) ==
    IF ticker \notin TickersOf(pf) THEN [portfolio |-> pf, cash |-> c, trades |-> <<>>]
    ELSE
      LET idx == FirstIndex(pf, ticker)
          current_shares == pf[idx].shares
          sell_value == shares * price
          Others(pos) == pos.ticker # ticker
          remaining_shares == current_shares - shares
      IN  IF shares > current_shares
            THEN [portfolio |-> pf, cash |-> c, trades |-> <<>>]
            ELSE [portfolio |->
                     IF shares = current_shares THEN SelectSeq(pf, Others)
                     ELSE [pf EXCEPT ![idx].shares = remaining_shares,
                                     ![idx].cost_basis = remaining_shares * pf[idx].buy_price],
                  cash |-> c + sell_value,
                  trades |-> <<OrderTrade("SELL", ticker, shares, price)>>]

\* The tickers, share counts, prices (1/10000 dollar) and stop an order is
\* given, and the portfolios and cash the orders start from.
OrderTickers == {"GEVO", "ARQ", "UPXI"}

OrderShares == {10, 37}

OrderPrices == {10000, 50000}

OrderStop == 9500

OrderPortfolios == {<<>>, INITIAL_PORTFOLIO}

OrderCash == {0, 1000000}

\* A call of execute_buy_order on the portfolio and cash of the session.
BuyOrder(ticker, shares, price) ==
    /\ Len(mm_trade_log) < MaxOrders
    /\ LET r == ExecuteBuyOrder(ticker, shares, price, OrderStop, mm_portfolio, mm_cash)
       IN  /\ mm_portfolio' = r.portfolio
           /\ mm_cash' = r.cash
           /\ mm_trade_log' = mm_trade_log \o r.trades
    /\ mm_order' = Some([action |-> "BUY", ticker |-> ticker, shares |-> shares,
                         price |-> price, portfolio |-> mm_portfolio, cash |-> mm_cash])
    /\ UNCHANGED <<mm_csv, mm_prices, mm_triggered, mm_before, mm_runs>>

\* A call of execute_sell_order on the portfolio and cash of the session.
SellOrder(ticker, shares, price) ==
    /\ Len(mm_trade_log) < MaxOrders
    /\ LET r == ExecuteSellOrder(ticker, shares, price, mm_portfolio, mm_cash)
       IN  /\ mm_portfolio' = r.portfolio
           /\ mm_cash' = r.cash
           /\ mm_trade_log' = mm_trade_log \o r.trades
    /\ mm_order' = Some([action |-> "SELL", ticker |-> ticker, shares |-> shares,
                         price |-> price, portfolio |-> mm_portfolio, cash |-> mm_cash])
    /\ UNCHANGED <<mm_csv, mm_prices, mm_triggered, mm_before, mm_runs>>

-----------------------------------------------------------------------------
(* Specification of main.py *)

MainInit ==
    /\ stateFile = None
    /\ queueFile = <<>>
    /\ history = <<>>
    /\ execLog = None
    /\ latest_json = None
    /\ pc = "idle"
    /\ failure = "none"
    /\ stops \in StopConfigs
    /\ holdings = SeedState.holdings
    /\ cash = SeedState.cash
    /\ latest_prices = [s \in Symbols |-> None]
    /\ previous_data = None
    /\ daily_changes = None
    /\ decisions = <<>>
    /\ i = 1
    /\ j = 1
    /\ executed_actions = <<>>
    /\ total_proceeds = 0
    /\ stop_actions = <<>>
    /\ position_values = [s \in Symbols |-> 0]
    /\ total_value = 0
    /\ runs = 0
    /\ pre = [state |-> None, queue |-> <<>>, rows |-> 0, execLog |-> None,
              latest_json |-> None, resolved |-> <<>>]
    /\ trace = <<>>
    /\ afterDecisions = None
    /\ resolvedQueue = <<>>
    /\ submitted = 0

MMInit ==
    /\ mm_csv = None
    /\ mm_portfolio = <<>>
    /\ mm_cash = 0
    /\ mm_prices = [t \in {} |-> None]
    /\ mm_triggered = <<>>
    /\ mm_trade_log = <<>>
    /\ mm_before = None
    /\ mm_order = None
    /\ mm_runs = 0

Init == MainInit /\ MMInit

Next ==
    \/ \E px \in Snapshots : BeginRun(px) /\ UNCHANGED mmVars
    \/ ExecuteDecision /\ UNCHANGED mmVars
    \/ ArchiveDecisions /\ UNCHANGED mmVars
    \/ StopLossStep /\ UNCHANGED mmVars
    \/ AppendHistory /\ UNCHANGED mmVars
    \/ AppendHistoryFails /\ UNCHANGED mmVars
    \/ SaveState /\ UNCHANGED mmVars
    \/ SaveStateFails /\ UNCHANGED mmVars
    \/ WriteReports /\ UNCHANGED mmVars
    \/ \E d \in DecisionSet : SubmitDecision(d) /\ UNCHANGED mmVars
    \/ Backfill /\ UNCHANGED mmVars

Spec == Init /\ [][Next]_vars

(* Specification of one run of main.py: the decision source fills the queue,
   then main runs once *)

RunNext ==
    \/ \E d \in DecisionSet : runs = 0 /\ SubmitDecision(d) /\ UNCHANGED mmVars
    \/ \E px \in Snapshots : runs = 0 /\ BeginRun(px) /\ UNCHANGED mmVars
    \/ ExecuteDecision /\ UNCHANGED mmVars
    \/ ArchiveDecisions /\ UNCHANGED mmVars
    \/ StopLossStep /\ UNCHANGED mmVars
    \/ AppendHistory /\ UNCHANGED mmVars
    \/ AppendHistoryFails /\ UNCHANGED mmVars
    \/ SaveState /\ UNCHANGED mmVars
    \/ SaveStateFails /\ UNCHANGED mmVars
    \/ WriteReports /\ UNCHANGED mmVars

SpecRun == Init /\ [][RunNext]_vars

(* Specification of a sequence of runs of main.py whose queue never holds a
   negative target *)

RunsNext ==
    \/ \E d \in NonNegativeDecisions : SubmitDecision(d) /\ UNCHANGED mmVars
    \/ \E px \in Snapshots : BeginRun(px) /\ UNCHANGED mmVars
    \/ ExecuteDecision /\ UNCHANGED mmVars
    \/ ArchiveDecisions /\ UNCHANGED mmVars
    \/ StopLossStep /\ UNCHANGED mmVars
    \/ AppendHistory /\ UNCHANGED mmVars
    \/ AppendHistoryFails /\ UNCHANGED mmVars
    \/ SaveState /\ UNCHANGED mmVars
    \/ SaveStateFails /\ UNCHANGED mmVars
    \/ WriteReports /\ UNCHANGED mmVars

SpecRuns == Init /\ [][RunsNext]_vars

(* Specification of the valuation and of backfill_daily_changes.py on given
   inputs *)

DeltaNext ==
    \/ \E px \in Snapshots, h \in DeltaHoldings, c \in DeltaCash :
          DeltaRecord(px, h, c) /\ UNCHANGED mmVars
    \/ Backfill /\ UNCHANGED mmVars

SpecDelta == Init /\ [][DeltaNext]_vars

(* Specification of microcap_manager.py *)

MMNext ==
    \E px1 \in MMSnapshots, px2 \in MMSnapshots : MMMain(px1, px2) /\ UNCHANGED mainVars

SpecMM == Init /\ [][MMNext]_vars

(* Specification of the orders of microcap_manager.py, from a portfolio of
   positive positions and a cash that is not negative *)

OrdersInit ==
    /\ MainInit
    /\ mm_csv = None
    /\ mm_portfolio \in OrderPortfolios
    /\ mm_cash \in OrderCash
    /\ mm_prices = [t \in {} |-> None]
    /\ mm_triggered = <<>>
    /\ mm_trade_log = <<>>
    /\ mm_before = None
    /\ mm_order = None
    /\ mm_runs = 0

OrdersNext ==
    \/ \E t \in OrderTickers, n \in OrderShares, p \in OrderPrices :
          BuyOrder(t, n, p) /\ UNCHANGED mainVars
    \/ \E t \in OrderTickers, n \in OrderShares, p \in OrderPrices :
          SellOrder(t, n, p) /\ UNCHANGED mainVars

SpecOrders == OrdersInit /\ [][OrdersNext]_vars

-----------------------------------------------------------------------------
(* Helpers of the properties *)

\* a is a subsequence of b
RECURSIVE IsSubSeq(_, _)
IsSubSeq(a, b) ==
    IF a = <<>> THEN TRUE
    ELSE IF b = <<>> THEN FALSE
    ELSE IF Head(a) = Head(b) THEN IsSubSeq(Tail(a), Tail(b))
    ELSE IsSubSeq(a, Tail(b))

\* the State a run starts from: the file, or the seed when there is none
EffectiveState(file) == IF file = None THEN SeedState ELSE Val(file)

\* a run is under way or has just stopped (nobody wrote to the queue since)
InRun == pc # "idle"

\* the queue positions whose decision this run has executed
ExecutedPositions ==
    {trace[n].k : n \in {m \in 1..Len(trace) : trace[m].ev = "decision" /\ trace[m].did}}

\* the entries of q at the positions outside P, in order
RECURSIVE Without(_, _, _)
Without(q, P, k) ==
    IF k > Len(q) THEN <<>>
    ELSE IF k \in P THEN Without(q, P, k + 1)
    ELSE <<q[k]>> \o Without(q, P, k + 1)

\* value of a microcap_manager portfolio at the closes prices
MMValue(pf, c, prices) ==
    LET Worth(pos) == IF Truthy(prices[pos.ticker])
                        THEN pos.shares * Val(prices[pos.ticker]) ELSE 0
    IN  c + SumSeq([k \in 1..Len(pf) |-> Worth(pf[k])])

\* the for loop of execute_trading_decisions over the queue q, as a function
RECURSIVE RunDecisions(_, _, _)
RunDecisions(e, q, px) ==
    IF q = <<>> THEN e
    ELSE RunDecisions(ApplyDecision(e, Head(q), px), Tail(q), px)

\* the stop-loss loop over the symbols u, as a function (it ends at a symbol
\* with a close and no stop)
RECURSIVE RunStops(_, _, _, _)
RunStops(e, u, px, stp) ==
    IF u = <<>> THEN e
    ELSE IF ~PriceKnown(px, Head(u)) THEN RunStops(e, Tail(u), px, stp)
    ELSE IF Head(u) \notin DOMAIN stp THEN e
    ELSE RunStops(ApplyStop(e, Head(u), px, stp), Tail(u), px, stp)

\* f restricted to the keys in K
Restrict(f, K) == [x \in DOMAIN f \cap K |-> f[x]]

\* the stop-loss loop has gone through every symbol
StopPassDone == afterDecisions # None /\ j > Len(Universe)

\* a stop-loss sale of s was made in this run
StopSold(s) == \E n \in 1..Len(stop_actions) : stop_actions[n].symbol = s

\* the symbols of the universe without a close in this run
Unpriced == {s \in Symbols : latest_prices[s] = None}

\* the number of decisions this run has gone through
DecisionEvents == Cardinality({n \in 1..Len(trace) : trace[n].ev = "decision"})

-----------------------------------------------------------------------------
(* Properties *)

\* C1 (Non-negativity): in every reachable state of main.main cash >= 0 and
\* every holding is >= 0, in memory and in the persisted State.
C1_NonNegativity ==
    /\ cash >= 0
    /\ \A s \in DOMAIN holdings : holdings[s] >= 0
    /\ stateFile # None =>
          /\ Val(stateFile).cash >= 0
          /\ \A s \in DOMAIN Val(stateFile).holdings : Val(stateFile).holdings[s] >= 0

\* C2 (At-most-once execution): when a completed run has processed the
\* persisted queue, a following run that loads the same queue executes none of
\* its instructions.
C2_AtMostOnce ==
    (InRun /\ pre.resolved # <<>> /\ decisions = pre.resolved)
        => executed_actions = <<>>

\* C3 (Atomic run outcome): whenever a run has stopped, the persisted queue,
\* history and State either all keep their pre-run values or all reflect the
\* complete outcome of the run.
C3_AllPreRun ==
    /\ queueFile = pre.queue
    /\ Len(history) = pre.rows
    /\ EffectiveState(stateFile) = EffectiveState(pre.state)

C3_AllOutcome ==
    /\ queueFile = IF executed_actions # <<>> THEN <<>> ELSE pre.queue
    /\ Len(history) = pre.rows + 1
    /\ stateFile = Some(SavedState(holdings, cash))

C3_AtomicRunOutcome ==
    pc \in Terminal => (C3_AllPreRun \/ C3_AllOutcome)

\* C4 (Queue ownership): a run removes from the persisted queue only entries
\* it has executed, and adds none: the entries it did not execute are still
\* there, in order, and the queue holds nothing else.
C4_QueueOwnership ==
    InRun =>
        /\ IsSubSeq(Without(pre.queue, ExecutedPositions, 1), queueFile)
        /\ IsSubSeq(queueFile, pre.queue)

\* C5 (Conservation): the stop-loss sales of microcap_manager.check_stop_losses
\* leave cash + the positions valued at the fetched closes unchanged.
C5_Conservation ==
    mm_before # None =>
        MMValue(mm_portfolio, mm_cash, mm_prices)
            = MMValue(Val(mm_before).portfolio, Val(mm_before).cash, mm_prices)

\* C6 (Stop-loss execution price): every stop-loss sale of
\* microcap_manager.check_stop_losses is worth shares x the fetched close.
C6_StopLossAtSnapshotPrice ==
    \A k \in 1..Len(mm_triggered) :
        mm_triggered[k].sell_value
            = mm_triggered[k].shares * Val(mm_prices[mm_triggered[k].ticker])

\* C10 (No-price-at-all): a run that fetched no close has stopped with an
\* explicit failure and has changed no persistent file: State, queue, history,
\* execution log and reports are as they were when it started.
C10_NoPriceNoChange ==
    pc = "exit1" =>
        /\ failure # "none"
        /\ stateFile = pre.state
        /\ queueFile = pre.queue
        /\ Len(history) = pre.rows
        /\ execLog = pre.execLog
        /\ latest_json = pre.latest_json

\* C7 (Stop-loss trigger): when the stop-loss pass of main.main is over, a
\* symbol has been force-sold if and only if its holding after the decisions was
\* > 0, its close is known and close <= its stop; the sale is of the full
\* holding, which becomes 0, and every other holding is what the decisions left.
C7_StopLossTrigger ==
    StopPassDone =>
        \A s \in DOMAIN holdings :
            LET before == Val(afterDecisions).holdings[s]
                due == /\ s \in Symbols
                       /\ before > 0
                       /\ latest_prices[s] # None
                       /\ Val(latest_prices[s]) <= stops[s]
            IN  /\ StopSold(s) <=> due
                /\ holdings[s] = IF due THEN 0 ELSE before
                /\ \A n \in 1..Len(stop_actions) :
                      stop_actions[n].symbol = s => stop_actions[n].qty = before

\* a run where one symbol was force-sold at its stop and another, held, was not
C7_Witness ==
    /\ StopPassDone
    /\ pc = "done"
    /\ \E s \in Symbols : StopSold(s) /\ Val(latest_prices[s]) = stops[s]
    /\ \E s \in Symbols : ~StopSold(s) /\ holdings[s] > 0 /\ latest_prices[s] # None

C9_MissingPriceIsolation ==
    (InRun /\ runs > 0 /\ ~NoValidData(latest_prices)) =>
        LET start == EffectiveState(pre.state)
            acts == executed_actions \o stop_actions
            Priced(s) == s \notin Unpriced
            PricedDecision(d) == SymbolOf(d) \notin Unpriced
            keys == DOMAIN start.holdings \ Unpriced
            afterQueue ==
                RunDecisions([holdings |-> Restrict(start.holdings, keys),
                              cash |-> start.cash, total_proceeds |-> 0,
                              executed_actions |-> <<>>],
                             SelectSeq(pre.queue, PricedDecision),
                             Restrict(latest_prices, Symbols \ Unpriced))
            afterStops ==
                RunStops([holdings |-> afterQueue.holdings, cash |-> afterQueue.cash,
                          stop_actions |-> <<>>],
                         SelectSeq(Universe, Priced),
                         Restrict(latest_prices, Symbols \ Unpriced), stops)
        IN  /\ pc # "exit1"
            /\ \A u \in Unpriced :
                  /\ holdings[u] = start.holdings[u]
                  /\ \A n \in 1..Len(acts) : acts[n].symbol # u
            /\ failure = "KeyError" => Universe[j] \notin Unpriced
            /\ StopPassDone =>
                  /\ cash = afterStops.cash
                  /\ \A s \in keys : holdings[s] = afterStops.holdings[s]

\* a completed run in which a held symbol had no close, the queue asked to sell
\* it, and another symbol was sold
C9_Witness ==
    /\ pc = "done"
    /\ \E u \in Unpriced :
          /\ holdings[u] > 0
          /\ \E n \in 1..Len(decisions) :
                SymbolOf(decisions[n]) = u /\ decisions[n].action = "SELL_ALL"
    /\ executed_actions # <<>>

-----------------------------------------------------------------------------
(* Supporting properties of main.main *)

\* Conservation in main.main (the part of C5 that holds): through the two
\* passes of a run, cash + the holdings valued at the closes of the run is what
\* it was when the run started.
MainSalesConserve ==
    (InRun /\ runs > 0 /\ pc # "exit1") =>
        TotalValue(holdings, cash, latest_prices)
            = TotalValue(EffectiveState(pre.state).holdings,
                         EffectiveState(pre.state).cash, latest_prices)

\* Stop-loss execution price in main.main (the part of C6 that holds): the
\* stop-loss pass credits cash with quantity x close for each of its sales.
MainStopAtSnapshotPrice ==
    StopPassDone =>
        /\ cash = Val(afterDecisions).cash
                  + SumSeq([n \in 1..Len(stop_actions) |->
                              stop_actions[n].qty * stop_actions[n].price])
        /\ \A n \in 1..Len(stop_actions) :
              stop_actions[n].price = Val(latest_prices[stop_actions[n].symbol])

\* The spec's scenario in main.main: cash 0, 37 ARQ, close 5.00, stop 5.80 give
\* cash 185.00 and no ARQ.
MainStopScenario ==
    /\ pc = "done"
    /\ pre.state = None
    /\ decisions = <<>>
    /\ latest_prices = [GEVO |-> None, ARQ |-> Some(50000)]
    /\ Val(stateFile) = [cash |-> 1850000,
                         holdings |-> [GEVO |-> 299, FEIM |-> 10, ARQ |-> 0, UPXI |-> 17]]

\* cash is never half-way between two cents when it is rounded
NoRoundingTie == pc = "save_state" => cash % 100 # 50

-----------------------------------------------------------------------------
(* State across runs *)

\* cash and the share count of every position of a microcap_manager state
MMState(pf, c) ==
    [cash |-> c, shares |-> {<<pf[k].ticker, pf[k].shares>> : k \in 1..Len(pf)}]

\* C11 (State continuity across runs): the cash and the share counts a run of
\* microcap_manager.main loads are those the previous run ended with.
C11_StateContinuity ==
    [][(mm_runs >= 1 /\ mm_runs' = mm_runs + 1) =>
          MMState(Val(mm_before').portfolio, Val(mm_before').cash)
              = MMState(mm_portfolio, mm_cash)]_vars

\* State continuity in main.main (the part of C11 that holds): a run that
\* follows a run which saved its State starts from the holdings of that run
\* and from its cash, in cents.
MainStateContinuity ==
    [][(runs >= 1 /\ runs' = runs + 1 /\ pc \in {"done", "idle"}
          /\ stateFile = Some(SavedState(holdings, cash))) =>
          (holdings' = holdings /\ cash' = Round2(cash))]_vars

\* the tickers of the sales in triggered_stops
StoppedOut(triggered) == {triggered[k].ticker : k \in 1..Len(triggered)}

\* C12 (Idempotent stop-loss): a position that a run of microcap_manager has
\* stopped out is not sold again, nor cash credited for it again, by the
\* stop-loss check of the next run.
C12_IdempotentStopLoss ==
    [][(mm_runs >= 1 /\ mm_runs' = mm_runs + 1) =>
          StoppedOut(mm_triggered') \cap StoppedOut(mm_triggered) = {}]_vars

\* Idempotent stop-loss in main.main (the part of C12 that holds): the
\* stop-loss loop sells a symbol at most once in a run, and never a symbol
\* whose holding the State the run started from has at 0.
MainStopIdempotent ==
    (InRun /\ runs > 0) =>
        /\ \A m, n \in 1..Len(stop_actions) :
              stop_actions[m].symbol = stop_actions[n].symbol => m = n
        /\ \A s \in Symbols :
              Get(EffectiveState(pre.state).holdings, s) <= 0 => ~StopSold(s)

-----------------------------------------------------------------------------
(* Daily changes *)

\* every delta column of the row is 0
ZeroColumns(row) ==
    /\ \A s \in DOMAIN row.change : row.change[s] = ZeroChange
    /\ row.portfolio_change = 0
    /\ row.portfolio_change_pct = 0

\* the row went through backfill_daily_changes
Backfilled(row) == DOMAIN row.change = BackfillSymbols

\* C13 (Cold start): without a previous row calculate_daily_changes returns 0
\* for every field of every symbol and of the portfolio, and the first row of
\* the history has all its delta columns at 0, as main wrote it and after
\* backfill_daily_changes.
C13_ColdStart ==
    /\ (daily_changes # None /\ previous_data = None) =>
          /\ \A s \in Symbols : Val(daily_changes).symbol[s] = ZeroChange
          /\ Val(daily_changes).portfolio = ZeroPortfolio
    /\ Len(history) >= 1 => ZeroColumns(history[1])

\* a first row with closes and a total above 0, rewritten by the backfill
C13_Witness ==
    /\ Len(history) >= 2
    /\ Backfilled(history[1])
    /\ history[1].total_value > 0
    /\ \A s \in Symbols : history[1].close[s] # None

\* C14 (Portfolio delta): main's total_change is the current total less the
\* total of the previous row and total_change_pct is total_change / previous
\* total x 100 (0 when the previous total is 0); and backfill_daily_changes
\* gives every row the portfolio change and percentage main wrote in it.
C14_PortfolioDelta ==
    [][/\ (daily_changes' # None /\ previous_data' # None) =>
             LET prior == Val(previous_data').total_value
                 change == total_value' - prior
             IN  Val(daily_changes').portfolio =
                     [total_change |-> change,
                      total_change_pct |-> IF prior = 0 THEN 0 ELSE Pct(change, prior)]
       /\ (Len(history') = Len(history) /\ history' # history) =>
             \A k \in 1..Len(history) :
                 /\ history'[k].portfolio_change = history[k].portfolio_change
                 /\ history'[k].portfolio_change_pct = history[k].portfolio_change_pct]_vars

\* Portfolio delta in main (the part of C14 that holds):
\* calculate_daily_changes against a previous row.
MainPortfolioDelta ==
    (daily_changes # None /\ previous_data # None) =>
        LET prior == Val(previous_data).total_value
            change == total_value - prior
        IN  Val(daily_changes).portfolio =
                [total_change |-> change,
                 total_change_pct |-> IF prior = 0 THEN 0 ELSE Pct(change, prior)]

\* The spec's scenario: previous total 1000.00, current total 950.00 give
\* -50.00 and -5.00, in main and after the backfill.
PortfolioDeltaScenario ==
    /\ Len(history) = 2
    /\ Backfilled(history[2])
    /\ history[1].total_value = 10000000
    /\ total_value = 9500000
    /\ Val(daily_changes).portfolio = [total_change |-> -500000, total_change_pct |-> -500]
    /\ history[2].portfolio_change = -500000
    /\ history[2].portfolio_change_pct = -500

\* a previous total of 0: the percentage is 0
PortfolioDeltaFromZero ==
    /\ daily_changes # None
    /\ previous_data # None
    /\ Val(previous_data).total_value = 0
    /\ total_value > 0
    /\ Val(daily_changes).portfolio.total_change_pct = 0

-----------------------------------------------------------------------------
(* Valuation *)

\* the holdings and cash the two passes of a run give from the State, queue
\* and closes the run started with
Reconciled ==
    LET start == EffectiveState(pre.state)
        afterQueue == RunDecisions([holdings |-> start.holdings, cash |-> start.cash,
                                    total_proceeds |-> 0, executed_actions |-> <<>>],
                                   pre.queue, latest_prices)
    IN  RunStops([holdings |-> afterQueue.holdings, cash |-> afterQueue.cash,
                  stop_actions |-> <<>>],
                 Universe, latest_prices, stops)

\* the run has valued the portfolio
Valued == InRun /\ daily_changes # None

\* C15 (Valuation): once a run has valued the portfolio, position_values[s] is
\* holdings[s] x close for every symbol of the universe and 0 for a symbol
\* without a close, total_value is cash + the sum of the position values, the
\* holdings and cash are those left by all the decisions and stop-loss sales of
\* the run, and the row of the run records these values in cents.
C15_Valuation ==
    Valued =>
        /\ \A s \in Symbols :
              position_values[s] = IF latest_prices[s] = None THEN 0
                                   ELSE holdings[s] * Val(latest_prices[s])
        /\ total_value = cash + SumOver(position_values, Symbols)
        /\ StopPassDone
        /\ holdings = Reconciled.holdings
        /\ cash = Reconciled.cash
        /\ Len(history) = pre.rows + 1 =>
              LET row == history[Len(history)]
              IN  /\ row.total_value = Round2(total_value)
                  /\ row.cash = Round2(cash)
                  /\ \A s \in Symbols :
                        /\ row.value[s] = Round2(position_values[s])
                        /\ row.qty[s] = holdings[s]

\* a completed run with a decision executed, a stop-loss sale, cash and a valued
\* position
C15_Witness ==
    /\ pc = "done"
    /\ executed_actions # <<>>
    /\ stop_actions # <<>>
    /\ cash > 0
    /\ total_value > cash

\* a valued run in which a held symbol has no close and counts for 0
ValuationUnpriced ==
    /\ pc = "done"
    /\ \E s \in Unpriced : holdings[s] > 0 /\ position_values[s] = 0
    /\ total_value > 0

-----------------------------------------------------------------------------
(* The instructions of the queue, one by one *)

\* the step is one iteration of the for loop of execute_trading_decisions, on
\* a decision whose action is a
DecisionStep(a) ==
    /\ pc = "decisions"
    /\ i <= Len(decisions)
    /\ i' = i + 1
    /\ decisions[i].action = a

\* C16 (ADD): an ADD(target_value) entry with target_value > 0, cash >=
\* target_value and a known close > 0 adds floor(target_value / close) shares
\* to the holding and debits cash by shares x close; when a precondition fails
\* holdings and cash are unchanged.
C16_Add ==
    [][DecisionStep("ADD") =>
          LET d == decisions[i]
              symbol == SymbolOf(d)
              ok == /\ d.target_value > 0
                    /\ cash >= d.target_value
                    /\ PriceKnown(latest_prices, symbol)
                    /\ Val(latest_prices[symbol]) > 0
              price == Val(latest_prices[symbol])
              shares == d.target_value \div price
          IN  IF ok
                THEN /\ holdings' = Put(holdings, symbol, Get(holdings, symbol) + shares)
                     /\ cash' = cash - shares * price
                ELSE UNCHANGED <<holdings, cash>>]_vars


\* the actions a queue entry may name
KnownActions == {"SELL_ALL", "SELL_PARTIAL", "TRIM_TO", "ADD", "HOLD"}

\* a malformed or self-contradictory entry: no symbol, a null or negative
\* target quantity, an unknown action
Invalid(d) ==
    \/ "symbol" \notin DOMAIN d
    \/ "target_quantity_null" \in DOMAIN d
    \/ d.action \notin KnownActions
    \/ ("target_quantity" \in DOMAIN d /\ d.target_quantity < 0)

\* C17 (Invalid instruction): no run fails on a malformed queue entry, and no
\* malformed entry that a run went through was executed: cash and holdings are
\* as they were before it.
C17_InvalidSkipped ==
    /\ failure # "TypeError"
    /\ \A n \in 1..Len(trace) :
          (trace[n].ev = "decision" /\ Invalid(decisions[trace[n].k])) => ~trace[n].did


\* C18 (TRIM_TO): a TRIM_TO(target_qty) entry on a symbol with a close and
\* more than target_qty shares held sells exactly held - target_qty shares:
\* cash rises by that number x close, the holding becomes target_qty, the other
\* holdings stay and one sale is logged; otherwise cash, holdings and the log
\* of executed actions are unchanged.
C18_TrimTo ==
    [][DecisionStep("TRIM_TO") =>
          LET d == decisions[i]
              symbol == SymbolOf(d)
              held == Get(holdings, symbol)
          IN  IF PriceKnown(latest_prices, symbol) /\ held > d.target_quantity
                THEN /\ cash' = cash + (held - d.target_quantity) * Val(latest_prices[symbol])
                     /\ holdings'[symbol] = d.target_quantity
                     /\ \A s \in DOMAIN holdings \ {symbol} : holdings'[s] = holdings[s]
                     /\ Len(executed_actions') = Len(executed_actions) + 1
                     /\ executed_actions'[Len(executed_actions')].qty
                            = held - d.target_quantity
                ELSE UNCHANGED <<holdings, cash, executed_actions>>]_vars

\* GEVO trimmed from 299 to 50 at 1.0026: 249 shares sold for 249.6474
C18_Witness ==
    /\ pc = "decisions"
    /\ i = 2
    /\ decisions[1] = [symbol |-> "GEVO", action |-> "TRIM_TO", target_quantity |-> 50]
    /\ holdings["GEVO"] = 50
    /\ cash = 2496474
    /\ Len(executed_actions) = 1

\* The spec's scenario: TRIM_TO(50) on ARQ, 37 held, with a close: nothing is
\* sold.
TrimScenario ==
    /\ pc = "decisions"
    /\ i = 2
    /\ decisions[1] = [symbol |-> "ARQ", action |-> "TRIM_TO", target_quantity |-> 50]
    /\ latest_prices["ARQ"] # None
    /\ holdings = SeedState.holdings
    /\ cash = 0
    /\ executed_actions = <<>>

\* C19 (SELL_ALL): a SELL_ALL entry on a symbol with a close and a holding > 0
\* raises cash by holding x close and sets the holding to 0, every other
\* holding unchanged; with a holding of 0 or without a close, cash and all the
\* holdings are unchanged.
C19_SellAll ==
    [][DecisionStep("SELL_ALL") =>
          LET symbol == SymbolOf(decisions[i])
              held == Get(holdings, symbol)
          IN  /\ (PriceKnown(latest_prices, symbol) /\ held > 0) =>
                    /\ cash' = cash + held * Val(latest_prices[symbol])
                    /\ DOMAIN holdings' = DOMAIN holdings
                    /\ holdings'[symbol] = 0
                    /\ \A s \in DOMAIN holdings \ {symbol} : holdings'[s] = holdings[s]
              /\ (~PriceKnown(latest_prices, symbol) \/ held = 0) =>
                    UNCHANGED <<holdings, cash>>]_vars

\* ARQ sold out at 5.00 after the GEVO holding was trimmed
C19_Witness ==
    /\ pc = "decisions"
    /\ i = 3
    /\ decisions[2] = [symbol |-> "ARQ", action |-> "SELL_ALL", target_quantity |-> 0]
    /\ latest_prices["ARQ"] = Some(50000)
    /\ holdings["ARQ"] = 0
    /\ holdings["GEVO"] = 50
    /\ cash = 2496474 + 1850000

\* a second SELL_ALL of a symbol already sold out changes nothing
SellAllOfNothing ==
    /\ pc = "decisions"
    /\ i = 3
    /\ decisions[1] = [symbol |-> "ARQ", action |-> "SELL_ALL", target_quantity |-> 0]
    /\ decisions[2] = decisions[1]
    /\ latest_prices["ARQ"] = Some(50000)
    /\ holdings["ARQ"] = 0
    /\ cash = 1850000
    /\ Len(executed_actions) = 1

\* C20 (HOLD): a HOLD entry is always executed: it leaves cash and every
\* holding unchanged and adds an entry for its symbol to the executed actions
\* of the run, which are what the execution log records, whether the symbol
\* has a close or not.
C20_HoldLogged ==
    [][DecisionStep("HOLD") =>
          /\ UNCHANGED <<holdings, cash>>
          /\ Len(executed_actions') = Len(executed_actions) + 1
          /\ executed_actions'[Len(executed_actions')].symbol = SymbolOf(decisions[i])]_vars

\* A HOLD entry leaves cash and holdings unchanged (the part of C20 that holds).
HoldChangesNothing ==
    [][DecisionStep("HOLD") => UNCHANGED <<holdings, cash>>]_vars


-----------------------------------------------------------------------------
(* The deltas of one symbol *)

\* the close of the symbol is missing in the row or in the row before it
CloseMissing(rows, k, s) == rows[k].close[s] = None \/ rows[k - 1].close[s] = None

\* C21 (Per-symbol delta with missing prices): the three deltas of a symbol
\* are 0 whenever its current close or its previous close is unavailable, in
\* what calculate_daily_changes returns and in every row of the history, as
\* main wrote it and after backfill_daily_changes.
C21_MissingPriceDelta ==
    /\ (daily_changes # None /\ previous_data # None) =>
          \A s \in Symbols :
              (latest_prices[s] = None \/ Val(previous_data).close[s] = None)
                  => Val(daily_changes).symbol[s] = ZeroChange
    /\ \A k \in 2..Len(history) : \A s \in Symbols :
          CloseMissing(history, k, s) => history[k].change[s] = ZeroChange

\* The part of C21 that holds: calculate_daily_changes, and the rows main
\* wrote that the backfill has not rewritten.
MainMissingPriceDelta ==
    /\ (daily_changes # None /\ previous_data # None) =>
          \A s \in Symbols :
              (latest_prices[s] = None \/ Val(previous_data).close[s] = None)
                  => Val(daily_changes).symbol[s] = ZeroChange
    /\ \A k \in 2..Len(history) : \A s \in Symbols :
          (~Backfilled(history[k]) /\ CloseMissing(history, k, s))
              => history[k].change[s] = ZeroChange

\* a row whose close of GEVO is 0
ZeroCloseRow ==
    HistoryRow(SeedState.holdings, 0, [GEVO |-> Some(0), ARQ |-> Some(50000)], <<>>)

\* A previous close of 0 gives a percentage of 0, in calculate_daily_changes
\* and in the backfill.
ZeroPriorPct ==
    \A px \in Snapshots :
        /\ SymbolChange(px, ZeroCloseRow, "GEVO").price_change_pct = 0
        /\ BackfillChange(HistoryRow(SeedState.holdings, 0, px, <<>>),
                          ZeroCloseRow, "GEVO").price_change_pct = 0

\* a backfilled row whose GEVO close is missing after a row that had it
BackfillOfMissingClose ==
    /\ Len(history) = 2
    /\ Backfilled(history[2])
    /\ history[1].close["GEVO"] = Some(10026)
    /\ history[2].close["GEVO"] = None
    /\ history[2].change["GEVO"].price_change = -10026
    /\ history[2].change["GEVO"].price_change_pct = -10000


\* the value change of the symbol in row k, from the quantity of the row before
PriorQuantityChange(rows, k, s) ==
    Round2(rows[k].change[s].price_change * rows[k - 1].qty[s])

\* C22 (value_change): the value change of a symbol is its price change times
\* the quantity of the previous record, in what calculate_daily_changes returns
\* and in every row of the history; and backfill_daily_changes leaves in every
\* row the value change main wrote in it.
C22_ValueChange ==
    [][/\ (daily_changes' # None /\ previous_data' # None) =>
             \A s \in Symbols :
                 Val(daily_changes').symbol[s].value_change
                     = Val(daily_changes').symbol[s].price_change
                          * Val(previous_data').qty[s]
       /\ \A k \in 2..Len(history') : \A s \in Symbols :
             history'[k].change[s].value_change = PriorQuantityChange(history', k, s)
       /\ (Len(history') = Len(history) /\ history' # history) =>
             \A k \in 1..Len(history) : \A s \in Symbols :
                 history'[k].change[s].value_change = history[k].change[s].value_change]_vars

\* The part of C22 that holds: calculate_daily_changes, and the rows main
\* wrote that the backfill has not rewritten.
MainValueChange ==
    /\ (daily_changes # None /\ previous_data # None) =>
          \A s \in Symbols :
              Val(daily_changes).symbol[s].value_change
                  = Val(daily_changes).symbol[s].price_change * Val(previous_data).qty[s]
    /\ \A k \in 2..Len(history) : \A s \in Symbols :
          ~Backfilled(history[k]) =>
              history[k].change[s].value_change = PriorQuantityChange(history, k, s)

\* 37 ARQ at 5.00, then 0 ARQ at 6.0026: main has written 37.10
MainOfChangedQuantity ==
    /\ Len(history) = 2
    /\ ~Backfilled(history[2])
    /\ history[1].close["ARQ"] = Some(50000)
    /\ history[1].qty["ARQ"] = 37
    /\ history[2].close["ARQ"] = Some(60026)
    /\ history[2].qty["ARQ"] = 0
    /\ history[2].change["ARQ"].value_change = 371000

\* the same two rows after the backfill: 0.00
BackfillOfChangedQuantity ==
    /\ Len(history) = 2
    /\ Backfilled(history[2])
    /\ history[1].close["ARQ"] = Some(50000)
    /\ history[1].qty["ARQ"] = 37
    /\ history[2].close["ARQ"] = Some(60026)
    /\ history[2].qty["ARQ"] = 0
    /\ history[2].change["ARQ"].value_change = 0


-----------------------------------------------------------------------------
(* The action log of a run *)

\* log is old with one entry more, about the symbol
OneMoreEntry(old, log, symbol) ==
    /\ Len(log) = Len(old) + 1
    /\ SubSeq(log, 1, Len(old)) = old
    /\ log[Len(log)].symbol = symbol

\* The step logs one entry about the symbol when the instruction was executed
\* and none when it was not.
LoggedIff(executed, old, log, symbol) ==
    IF executed THEN OneMoreEntry(old, log, symbol) ELSE log = old

\* C23 (Execution log): each instruction of the queue that is executed (a sale
\* that changes cash or holdings, or a HOLD) adds one entry to the actions of
\* the run and a skipped one adds none; each stop-loss sale adds one entry and
\* a symbol not sold none; the actions the row records are those of the queue
\* in their order followed by those of the stop-loss pass in theirs.
C23_ExecutionLog ==
    [][/\ (pc = "decisions" /\ i <= Len(decisions) /\ i' = i + 1) =>
             LoggedIff(decisions[i].action = "HOLD"
                          \/ holdings' # holdings \/ cash' # cash,
                       executed_actions, executed_actions', SymbolOf(decisions[i]))
       /\ (pc = "stops" /\ j <= Len(Universe) /\ j' = j + 1) =>
             LoggedIff(holdings' # holdings \/ cash' # cash,
                       stop_actions, stop_actions', Universe[j])
       /\ Len(history') = Len(history) + 1 =>
             history'[Len(history')].actions = executed_actions \o stop_actions]_vars

\* The part of C23 that holds: the same for the sales alone.
SalesLogged ==
    [][/\ (pc = "decisions" /\ i <= Len(decisions) /\ i' = i + 1) =>
             LoggedIff(holdings' # holdings \/ cash' # cash,
                       executed_actions, executed_actions', SymbolOf(decisions[i]))
       /\ (pc = "stops" /\ j <= Len(Universe) /\ j' = j + 1) =>
             LoggedIff(holdings' # holdings \/ cash' # cash,
                       stop_actions, stop_actions', Universe[j])
       /\ Len(history') = Len(history) + 1 =>
             history'[Len(history')].actions = executed_actions \o stop_actions]_vars

\* a row that records a sale of the queue before a stop-loss sale
QueueSaleThenStopSale ==
    /\ Len(history) = 1
    /\ Len(history[1].actions) = 2
    /\ history[1].actions[1].label = "CLAUDE TRIM"
    /\ history[1].actions[1].symbol = "GEVO"
    /\ history[1].actions[2].label = "STOP LOSS"
    /\ history[1].actions[2].symbol = "ARQ"


-----------------------------------------------------------------------------
(* Manual sale and stop-loss of one symbol *)

\* what the run has credited so far for the symbol s: the proceeds of the
\* sales of the queue and quantity x close of its stop-loss sale
SymbolProceeds(s) ==
    SumSeq([n \in 1..Len(executed_actions) |->
               IF executed_actions[n].symbol = s THEN executed_actions[n].proceeds
               ELSE 0])
    + SumSeq([n \in 1..Len(stop_actions) |->
                 IF stop_actions[n].symbol = s
                   THEN stop_actions[n].qty * stop_actions[n].price
                   ELSE 0])

\* no entry of the queue of the run asks for a negative quantity
NonNegativeTargets == \A k \in 1..Len(decisions) : TargetQty(decisions[k]) >= 0

\* the execution of the queue sold s and left none of it
SoldOutByQueue(s) ==
    /\ afterDecisions # None
    /\ Get(Val(afterDecisions).holdings, s) = 0
    /\ \E n \in 1..Len(executed_actions) : executed_actions[n].symbol = s

\* the proceeds of s are within what the run started with, at the close
WithinOpeningHolding(s) ==
    IF PriceKnown(latest_prices, s)
      THEN SymbolProceeds(s)
              <= Get(EffectiveState(pre.state).holdings, s) * Val(latest_prices[s])
      ELSE SymbolProceeds(s) = 0

\* C24 (Manual sale then stop-loss): in a run whose queue has no negative
\* target, the stop-loss pass sells nothing of a symbol the queue has sold out,
\* and what the run credits for a symbol, queue and stop-loss together, never
\* exceeds its holding at the start of the run times its close.
C24_NoDoubleSale ==
    (InRun /\ runs > 0 /\ NonNegativeTargets) =>
        \A s \in Symbols :
            /\ SoldOutByQueue(s) => ~StopSold(s)
            /\ WithinOpeningHolding(s)

\* The part of C24 that holds: the same for a run that starts from a State
\* without a negative holding.
NoDoubleSale ==
    (InRun /\ runs > 0 /\ NonNegativeTargets) =>
        \A s \in Symbols :
            /\ SoldOutByQueue(s) => ~StopSold(s)
            /\ Get(EffectiveState(pre.state).holdings, s) >= 0
                  => WithinOpeningHolding(s)

\* ARQ sold out by the queue at 5.00, under its stop of 5.80: the stop-loss
\* pass has gone over it and sold nothing
ManualSaleThenStop ==
    /\ pc = "done"
    /\ SoldOutByQueue("ARQ")
    /\ latest_prices["ARQ"] = Some(50000)
    /\ "ARQ" \in DOMAIN stops
    /\ SymbolProceeds("ARQ") = 1850000
    /\ ~StopSold("ARQ")

\* a run without a negative target that starts from a negative holding
RunFromNegativeHolding ==
    /\ pc = "done"
    /\ runs = 2
    /\ NonNegativeTargets
    /\ Get(EffectiveState(pre.state).holdings, "GEVO") = -5
    /\ latest_prices["GEVO"] # None
    /\ SymbolProceeds("GEVO") = 0


-----------------------------------------------------------------------------
(* Monotonicity *)

\* from the holdings h and cash c to the holdings h2 and cash c2, at the
\* closes px: no holding is higher, cash is not lower, and the holding of a
\* symbol outside the universe or without a close is the same
OnlySold(h, c, h2, c2, px) ==
    /\ c2 >= c
    /\ DOMAIN h2 = DOMAIN h
    /\ \A s \in DOMAIN h :
          /\ h2[s] <= h[s]
          /\ (s \notin Symbols \/ ~PriceKnown(px, s)) => h2[s] = h[s]

\* C25 (Monotonicity): over a sequence of runs of main.main with positive
\* closes and no negative target, every step of a run leaves no holding higher
\* and cash not lower, and so does every change of the persisted State; the
\* holding of a symbol outside the universe or without a close in the run is
\* never changed.
C25_Monotonic ==
    [][/\ runs' = runs => OnlySold(holdings, cash, holdings', cash', latest_prices)
       /\ OnlySold(EffectiveState(stateFile).holdings, EffectiveState(stateFile).cash,
                   EffectiveState(stateFile').holdings, EffectiveState(stateFile').cash,
                   latest_prices)]_vars

\* A second run has saved more cash than the first, which had saved some; its
\* queue asked to sell FEIM, which is held and outside the universe.
C25_Witness ==
    /\ runs = 2
    /\ pc = "done"
    /\ pre.state # None
    /\ Val(pre.state).cash > 0
    /\ Val(stateFile).cash > Val(pre.state).cash
    /\ \E k \in 1..Len(decisions) : SymbolOf(decisions[k]) = "FEIM"
    /\ Val(stateFile).holdings["FEIM"] = 10

\* the cash a run saves is below the cash it ended with, by less than a cent
SavedCashRoundedDown ==
    /\ pc = "done"
    /\ Val(stateFile).cash < cash


-----------------------------------------------------------------------------
(* The orders of microcap_manager *)

\* the shares the portfolio holds of the ticker (0 when it has no position)
SharesHeld(pf, ticker) ==
    IF ticker \in TickersOf(pf) THEN pf[FirstIndex(pf, ticker)].shares ELSE 0

\* the order is one the functions reject: its cost is above the cash, the
\* ticker is not held, or more shares are sold than held
Rejected(o) ==
    \/ o.action = "BUY" /\ o.shares * o.price > o.cash
    \/ o.action = "SELL" /\ o.ticker \notin TickersOf(o.portfolio)
    \/ o.action = "SELL" /\ o.shares > SharesHeld(o.portfolio, o.ticker)

\* C26 (Order guards): after any sequence of execute_buy_order and
\* execute_sell_order calls with positive share counts and prices, from cash
\* >= 0 and positive positions, cash is >= 0 and every position of the
\* portfolio has shares > 0; and a rejected order has returned the portfolio
\* and the cash it was given.
C26_OrderGuards ==
    /\ mm_cash >= 0
    /\ \A k \in 1..Len(mm_portfolio) : mm_portfolio[k].shares > 0
    /\ (mm_order # None /\ Rejected(Val(mm_order))) =>
          /\ mm_portfolio = Val(mm_order).portfolio
          /\ mm_cash = Val(mm_order).cash

\* A buy that costs more than the cash, after a sale of the whole ARQ position
\* has removed it from the portfolio.
C26_Witness ==
    /\ mm_order # None
    /\ Val(mm_order).action = "BUY"
    /\ Rejected(Val(mm_order))
    /\ \E n \in 1..Len(mm_trade_log) :
          /\ mm_trade_log[n].action = "SELL"
          /\ mm_trade_log[n].ticker = "ARQ"
          /\ mm_trade_log[n].shares = 37
    /\ "ARQ" \notin TickersOf(mm_portfolio)
    /\ mm_cash > 0

\* a sale of more shares than held, and a sale of a ticker not held
SellRejected ==
    /\ mm_order # None
    /\ Val(mm_order).action = "SELL"
    /\ Val(mm_order).ticker = "GEVO"
    /\ Val(mm_order).shares = 37
    /\ SharesHeld(mm_portfolio, "GEVO") = 10
    /\ Len(mm_trade_log) >= 1

\* a buy that adds to a position and spends all the cash
BuyToTheLastCent ==
    /\ mm_order # None
    /\ Val(mm_order).action = "BUY"
    /\ ~Rejected(Val(mm_order))
    /\ Val(mm_order).cash > 0
    /\ mm_cash = 0
    /\ SharesHeld(mm_portfolio, Val(mm_order).ticker)
          > SharesHeld(Val(mm_order).portfolio, Val(mm_order).ticker)
    /\ SharesHeld(Val(mm_order).portfolio, Val(mm_order).ticker) > 0

====
